---- MODULE Spec2Model ----
(***************************************************************************)
(* Verification model of the two course notebooks.                         *)
(*                                                                         *)
(*  sheet14.ipynb : train(nn,svc,msteps,vsteps,lr), the loop that          *)
(*                  backpropagates the gradient of a linear SVC into a     *)
(*                  feed-forward network.                                  *)
(*  part_000      : the graphical-model notebook (example, shallow and     *)
(*                  hierarchical model over binary images).                *)
(*                                                                         *)
(* Numerical arrays are abstracted by their provenance: a feature matrix   *)
(* is identified by the data set it was computed from and by the version   *)
(* of the network parameters (the number of nn.update calls so far).       *)
(***************************************************************************)
EXTENDS Integers, Sequences, FiniteSets, TLC

VARIABLES
    \* ---- sheet14.ipynb, train() --------------------------------------
    pc,        \* position in train()
    it,        \* loop variable of "for it in range(1,101)"
    msteps,    \* argument msteps (a list)
    vsteps,    \* argument vsteps (a list)
    theta,     \* version of the network parameters (number of updates)
    nnX,       \* nn: the input kept by the last nn.forward
    nnD,       \* nn: the gradient kept by the last nn.backward
    svc,       \* svc: the problem solved by the last svc.optimize
    loc,       \* local variables Z, DZ, Ztest, DZtest, Ftest, DXtest, J, Jtest
    lastUpd,   \* what the last nn.update applied
    trace,     \* calls made in the current iteration, in order
    out,       \* lines printed
    vis,       \* calls of utils.visualize
    \* ---- part_000, the graphical-model notebook ----------------------
    gpc,       \* position in the notebook
    T,         \* labels of the training examples, T[n] for n = 0..N-1
    Xtop,      \* example model: white pixels in the top half of example n
    Xbot,      \* example model: white pixels in the bottom half
    PT,        \* class factors
    PXT1,      \* example model: class-level factors (top)
    PXT2,      \* example model: class-level factors (bottom)
    X,         \* training images, X[n][r][c] in {0,1}
    Z,         \* subclass of each group of each training example, Z[n][grp]
    PXT,       \* shallow: PXT[nbf][cl][lv]; hierarchical: PXT[grp][nbf][sc][lv]
    PZT,       \* hierarchical: PZT[grp][cl][sc]
    subX,      \* hierarchical: subX[n][grp][r][c]
    FT,        \* table of the factor node FT
    FXT,       \* tables of the factor nodes FXT
    FZT,       \* tables of the factor nodes FZT
    model,     \* which model the factor graph is: "shallow" or "hierarchical"
    predX,     \* predict: the image x
    evidence,  \* predict: the evidence of the nodes VX
    pred       \* predict: the class returned

trainVars == <<pc, it, msteps, vsteps, theta, nnX, nnD, svc, loc, lastUpd, trace, out, vis>>

exVars == <<Xtop, Xbot, PXT1, PXT2>>

fitVars == <<X, Z, PXT, PZT, subX, FT, FXT, FZT>>

predVars == <<model, predX, evidence, pred>>

gmVars == <<gpc, T, PT, exVars, fitVars, predVars>>

vars == <<trainVars, gmVars>>

\* A variable of a program that is not running.
Unused == "unused"

GmUnused ==
    /\ gpc = Unused /\ T = Unused /\ PT = Unused
    /\ Xtop = Unused /\ Xbot = Unused /\ PXT1 = Unused /\ PXT2 = Unused
    /\ X = Unused /\ Z = Unused /\ PXT = Unused /\ PZT = Unused
    /\ subX = Unused /\ FT = Unused /\ FXT = Unused /\ FZT = Unused
    /\ model = Unused /\ predX = Unused /\ evidence = Unused /\ pred = Unused

PredUnused ==
    /\ model = Unused /\ predX = Unused /\ evidence = Unused /\ pred = Unused

FitUnused ==
    /\ X = Unused /\ Z = Unused /\ PXT = Unused /\ PZT = Unused
    /\ subX = Unused /\ FT = Unused /\ FXT = Unused /\ FZT = Unused

ExUnused ==
    /\ Xtop = Unused /\ Xbot = Unused /\ PXT1 = Unused /\ PXT2 = Unused

TrainUnused ==
    /\ pc = Unused /\ it = Unused /\ msteps = Unused /\ vsteps = Unused
    /\ theta = Unused /\ nnX = Unused /\ nnD = Unused /\ svc = Unused
    /\ loc = Unused /\ lastUpd = Unused /\ trace = Unused /\ out = Unused
    /\ vis = Unused

\* ------------------------------------------------------------------------
\* sheet14.ipynb : train()
\* ------------------------------------------------------------------------

\* for it in range(1,101)
NbIter == 100

\* Largest number of entries of the lists msteps and vsteps.
MaxM == 2
MaxV == 2

\* Values the entries of msteps and vsteps are drawn from: the first and the
\* last iteration, and a number range(1,101) never yields.
StepVals == {1, NbIter, NbIter + 1}

SeqsUpTo(S, n) == UNION {[1..k -> S] : k \in 0..n}

\* Python's "v in lst"
In(v, lst) == \E i \in DOMAIN lst : lst[i] = v

None == [data |-> "none", theta |-> 0]
NoFit == [feat |-> None, labels |-> "none"]
NoGrad == [grad |-> NoFit, fwd |-> None]
NoUpd == [grad |-> NoFit, fwd |-> None, svc |-> NoFit, theta |-> 0]

\* nn.forward(data): features of data under the current parameters
Feat(data) == [data |-> data, theta |-> theta]

\* svc.optimize(feat, labels): the optimisation problem the SVC now holds
Fit(feat, labels) == [feat |-> feat, labels |-> labels]

InitLoc == [Z |-> None, DZ |-> NoFit, Ztest |-> None, DZtest |-> NoFit,
            Ftest |-> NoFit, DXtest |-> NoGrad, tmp |-> None,
            J |-> NoFit, Jtest |-> NoFit]

TrainInit ==
    /\ pc = "for"
    /\ it = 0
    /\ msteps \in SeqsUpTo(StepVals, MaxM)
    /\ vsteps \in SeqsUpTo(StepVals, MaxV)
    /\ theta = 0
    /\ nnX = None
    /\ nnD = NoGrad
    /\ svc = NoFit
    /\ loc = InitLoc
    /\ lastUpd = NoUpd
    /\ trace = <<>>
    /\ out = <<>>
    /\ vis = <<>>
    /\ GmUnused

\* for it in range(1,101):
LoopHead ==
    /\ pc = "for"
    /\ IF it < NbIter
         THEN /\ it' = it + 1
              /\ pc' = "l52"
              /\ trace' = <<>>
         ELSE /\ pc' = "done"
              /\ UNCHANGED <<it, trace>>
    /\ UNCHANGED <<msteps, vsteps, theta, nnX, nnD, svc, loc, lastUpd, out, vis, gmVars>>

\* Z = nn.forward(X)
Forward52 ==
    /\ pc = "l52"
    /\ nnX' = Feat("X")
    /\ loc' = [loc EXCEPT !.Z = Feat("X")]
    /\ trace' = Append(trace, "nn.forward(X)")
    /\ pc' = "l53"
    /\ UNCHANGED <<it, msteps, vsteps, theta, nnD, svc, lastUpd, out, vis, gmVars>>

\* Variant: the SVC is optimized in the first iteration only and reused
\* afterwards.
Optimize53Once ==
    /\ pc = "l53"
    /\ svc' = IF it = 1 THEN Fit(loc.Z, "Y") ELSE svc
    /\ trace' = Append(trace, "svc.optimize(Z,Y)")
    /\ pc' = "l54"
    /\ UNCHANGED <<it, msteps, vsteps, theta, nnX, nnD, loc, lastUpd, out, vis, gmVars>>

\* svc.optimize(Z,Y)
Optimize53 ==
    /\ pc = "l53"
    /\ svc' = Fit(loc.Z, "Y")
    /\ trace' = Append(trace, "svc.optimize(Z,Y)")
    /\ pc' = "l54"
    /\ UNCHANGED <<it, msteps, vsteps, theta, nnX, nnD, loc, lastUpd, out, vis, gmVars>>

\* DZ = svc.gradient()
Gradient54 ==
    /\ pc = "l54"
    /\ loc' = [loc EXCEPT !.DZ = svc]
    /\ trace' = Append(trace, "svc.gradient()")
    /\ pc' = "l55"
    /\ UNCHANGED <<it, msteps, vsteps, theta, nnX, nnD, svc, lastUpd, out, vis, gmVars>>

\* nn.backward(DZ)
Backward55 ==
    /\ pc = "l55"
    /\ nnD' = [grad |-> loc.DZ, fwd |-> nnX]
    /\ trace' = Append(trace, "nn.backward(DZ)")
    /\ pc' = "l56"
    /\ UNCHANGED <<it, msteps, vsteps, theta, nnX, svc, loc, lastUpd, out, vis, gmVars>>

\* nn.update(lr)
Update56 ==
    /\ pc = "l56"
    /\ theta' = theta + 1
    /\ lastUpd' = [grad |-> nnD.grad, fwd |-> nnD.fwd, svc |-> svc, theta |-> theta]
    /\ trace' = Append(trace, "nn.update(lr)")
    /\ pc' = "l59"
    /\ UNCHANGED <<it, msteps, vsteps, nnX, nnD, svc, loc, out, vis, gmVars>>

\* if it in msteps:
CheckM59 ==
    /\ pc = "l59"
    /\ pc' = IF In(it, msteps) THEN "l60a" ELSE "l63"
    /\ UNCHANGED <<it, msteps, vsteps, theta, nnX, nnD, svc, loc, lastUpd, trace, out, vis, gmVars>>

\* Variant: the line reports the objective on the features Z computed before
\* the update instead of on nn.forward(X).
PrintFwdXStale ==
    /\ pc = "l60a"
    /\ loc' = [loc EXCEPT !.tmp = loc.Z]
    /\ trace' = Append(trace, "nn.forward(X)")
    /\ pc' = "l60b"
    /\ UNCHANGED <<it, msteps, vsteps, theta, nnX, nnD, svc, lastUpd, out, vis, gmVars>>

\* print(... % (it, svc.optimize(nn.forward(X),Y), svc.optimize(nn.forward(Xtest),Ytest)))
\* the arguments are evaluated left to right, then the line is printed
PrintFwdX ==
    /\ pc = "l60a"
    /\ nnX' = Feat("X")
    /\ loc' = [loc EXCEPT !.tmp = Feat("X")]
    /\ trace' = Append(trace, "nn.forward(X)")
    /\ pc' = "l60b"
    /\ UNCHANGED <<it, msteps, vsteps, theta, nnD, svc, lastUpd, out, vis, gmVars>>

PrintOptX ==
    /\ pc = "l60b"
    /\ svc' = Fit(loc.tmp, "Y")
    /\ loc' = [loc EXCEPT !.J = Fit(loc.tmp, "Y")]
    /\ trace' = Append(trace, "svc.optimize(.,Y)")
    /\ pc' = "l60c"
    /\ UNCHANGED <<it, msteps, vsteps, theta, nnX, nnD, lastUpd, out, vis, gmVars>>

PrintFwdTest ==
    /\ pc = "l60c"
    /\ nnX' = Feat("Xtest")
    /\ loc' = [loc EXCEPT !.tmp = Feat("Xtest")]
    /\ trace' = Append(trace, "nn.forward(Xtest)")
    /\ pc' = "l60d"
    /\ UNCHANGED <<it, msteps, vsteps, theta, nnD, svc, lastUpd, out, vis, gmVars>>

PrintOptTest ==
    /\ pc = "l60d"
    /\ svc' = Fit(loc.tmp, "Ytest")
    /\ loc' = [loc EXCEPT !.Jtest = Fit(loc.tmp, "Ytest")]
    /\ trace' = Append(trace, "svc.optimize(.,Ytest)")
    /\ pc' = "l60e"
    /\ UNCHANGED <<it, msteps, vsteps, theta, nnX, nnD, lastUpd, out, vis, gmVars>>

Print60 ==
    /\ pc = "l60e"
    /\ out' = Append(out, [it |-> it, J |-> loc.J, Jtest |-> loc.Jtest])
    /\ trace' = Append(trace, "print")
    /\ pc' = "l63"
    /\ UNCHANGED <<it, msteps, vsteps, theta, nnX, nnD, svc, loc, lastUpd, vis, gmVars>>

\* if it in vsteps:
CheckV63 ==
    /\ pc = "l63"
    /\ pc' = IF In(it, vsteps) THEN "l64" ELSE "for"
    /\ UNCHANGED <<it, msteps, vsteps, theta, nnX, nnD, svc, loc, lastUpd, trace, out, vis, gmVars>>

\* Ztest = nn.forward(Xtest)
Forward64 ==
    /\ pc = "l64"
    /\ nnX' = Feat("Xtest")
    /\ loc' = [loc EXCEPT !.Ztest = Feat("Xtest")]
    /\ trace' = Append(trace, "nn.forward(Xtest)")
    /\ pc' = "l65"
    /\ UNCHANGED <<it, msteps, vsteps, theta, nnD, svc, lastUpd, out, vis, gmVars>>

\* Variant: the SVC is not optimized on the test features before its
\* gradient and predictions are taken.
Optimize65Skipped ==
    /\ pc = "l65"
    /\ trace' = Append(trace, "svc.optimize(Ztest,Ytest)")
    /\ pc' = "l66"
    /\ UNCHANGED <<it, msteps, vsteps, theta, nnX, nnD, svc, loc, lastUpd, out, vis, gmVars>>

\* svc.optimize(Ztest,Ytest)
Optimize65 ==
    /\ pc = "l65"
    /\ svc' = Fit(loc.Ztest, "Ytest")
    /\ trace' = Append(trace, "svc.optimize(Ztest,Ytest)")
    /\ pc' = "l66"
    /\ UNCHANGED <<it, msteps, vsteps, theta, nnX, nnD, loc, lastUpd, out, vis, gmVars>>

\* DZtest = svc.gradient()
Gradient66 ==
    /\ pc = "l66"
    /\ loc' = [loc EXCEPT !.DZtest = svc]
    /\ trace' = Append(trace, "svc.gradient()")
    /\ pc' = "l67"
    /\ UNCHANGED <<it, msteps, vsteps, theta, nnX, nnD, svc, lastUpd, out, vis, gmVars>>

\* Ftest = svc.predictions()
Predictions67 ==
    /\ pc = "l67"
    /\ loc' = [loc EXCEPT !.Ftest = svc]
    /\ trace' = Append(trace, "svc.predictions()")
    /\ pc' = "l68"
    /\ UNCHANGED <<it, msteps, vsteps, theta, nnX, nnD, svc, lastUpd, out, vis, gmVars>>

\* Variant: the parameters are updated after the backward pass of the test
\* gradient too.
Backward68Update ==
    /\ pc = "l68"
    /\ nnD' = [grad |-> loc.DZtest, fwd |-> nnX]
    /\ loc' = [loc EXCEPT !.DXtest = [grad |-> loc.DZtest, fwd |-> nnX]]
    /\ theta' = theta + 1
    /\ lastUpd' = [grad |-> loc.DZtest, fwd |-> nnX, svc |-> svc, theta |-> theta]
    /\ trace' = trace \o <<"nn.backward(DZtest)", "nn.update(lr)">>
    /\ pc' = "l69"
    /\ UNCHANGED <<it, msteps, vsteps, nnX, svc, out, vis, gmVars>>

\* DXtest = nn.backward(DZtest)
Backward68 ==
    /\ pc = "l68"
    /\ nnD' = [grad |-> loc.DZtest, fwd |-> nnX]
    /\ loc' = [loc EXCEPT !.DXtest = [grad |-> loc.DZtest, fwd |-> nnX]]
    /\ trace' = Append(trace, "nn.backward(DZtest)")
    /\ pc' = "l69"
    /\ UNCHANGED <<it, msteps, vsteps, theta, nnX, svc, lastUpd, out, vis, gmVars>>

\* utils.visualize(Xtest,DXtest,Ftest,Ytest)
Visualize69 ==
    /\ pc = "l69"
    /\ vis' = Append(vis, [it |-> it, DXtest |-> loc.DXtest, Ftest |-> loc.Ftest])
    /\ trace' = Append(trace, "utils.visualize")
    /\ pc' = "for"
    /\ UNCHANGED <<it, msteps, vsteps, theta, nnX, nnD, svc, loc, lastUpd, out, gmVars>>

TrainNext ==
    \/ LoopHead
    \/ Forward52
    \/ Optimize53
    \/ Gradient54
    \/ Backward55
    \/ Update56
    \/ CheckM59
    \/ PrintFwdX
    \/ PrintOptX
    \/ PrintFwdTest
    \/ PrintOptTest
    \/ Print60
    \/ CheckV63
    \/ Forward64
    \/ Optimize65
    \/ Gradient66
    \/ Predictions67
    \/ Backward68
    \/ Visualize69

SpecTrain == TrainInit /\ [][TrainNext]_vars

\* ------------------------------------------------------------------------
\* Properties of train()
\* ------------------------------------------------------------------------

GradStep == <<"nn.forward(X)", "svc.optimize(Z,Y)", "svc.gradient()",
              "nn.backward(DZ)", "nn.update(lr)">>

VisStep == <<"nn.forward(Xtest)", "svc.optimize(Ztest,Ytest)", "svc.gradient()",
             "svc.predictions()", "nn.backward(DZtest)", "utils.visualize">>

InGradStep == pc \in {"l52", "l53", "l54", "l55", "l56"}

\* The training problem of iteration k: the SVC on nn.forward(X) under the
\* parameters the network has when iteration k starts, with labels Y.
TrainFit(k) == [feat |-> [data |-> "X", theta |-> k - 1], labels |-> "Y"]

\* C1: in every iteration it = 1..100 the calls are forward(X),
\* svc.optimize(Z,Y), svc.gradient(), nn.backward(DZ), nn.update(lr) in this
\* order with nothing in between, and the gradient that nn.update applies is
\* the gradient of the SVC optimized in that same iteration on the features
\* of X under the parameters current in that iteration, whatever msteps and
\* vsteps are; the loop ends after iteration 100.
C1_FreshGradient ==
    /\ \A i \in DOMAIN trace : i <= Len(GradStep) => trace[i] = GradStep[i]
    /\ InGradStep =>
          /\ theta = it - 1
          /\ Len(trace) = CASE pc = "l52" -> 0 [] pc = "l53" -> 1 [] pc = "l54" -> 2
                            [] pc = "l55" -> 3 [] pc = "l56" -> 4
          /\ pc \in {"l54", "l55", "l56"} => svc = TrainFit(it)
          /\ pc \in {"l55", "l56"} => loc.DZ = TrainFit(it)
          /\ pc = "l56" => nnD = [grad |-> TrainFit(it), fwd |-> TrainFit(it).feat]
    /\ (it >= 1 /\ ~InGradStep) =>
          /\ theta = it
          /\ Len(trace) >= Len(GradStep)
          /\ lastUpd.theta = it - 1
          /\ lastUpd.grad = TrainFit(it)
          /\ lastUpd.fwd = TrainFit(it).feat
    /\ pc = "done" => it = NbIter

C1_Witness ==
    /\ pc = "done"
    /\ theta = NbIter
    /\ lastUpd.grad = TrainFit(NbIter)
    /\ vis # <<>>
    /\ out # <<>>

\* C2: the network is never updated from test data: every nn.update(lr) is
\* immediately preceded by nn.backward(DZ), and what it applies is a gradient
\* of an SVC whose most recent optimize was on (nn.forward(X), Y), propagated
\* through a forward pass of X; this holds also for the updates that follow
\* an iteration in which the test data were passed through the network.
C2_NeverSeesTestData ==
    /\ \A i \in DOMAIN trace :
          trace[i] = "nn.update(lr)" => (i > 1 /\ trace[i - 1] = "nn.backward(DZ)")
    /\ lastUpd # NoUpd =>
          /\ lastUpd.grad.feat.data = "X"
          /\ lastUpd.grad.labels = "Y"
          /\ lastUpd.svc.feat.data = "X"
          /\ lastUpd.svc.labels = "Y"
          /\ lastUpd.fwd.data = "X"
    /\ pc = "l56" =>
          /\ nnD.grad.feat.data = "X"
          /\ nnD.grad.labels = "Y"
          /\ nnD.fwd.data = "X"
          /\ svc.labels = "Y"

\* an update made after an iteration that printed and visualized
C2_Witness ==
    /\ Len(out) >= 1
    /\ Len(vis) >= 1
    /\ it = 2
    /\ pc = "l59"
    /\ lastUpd.theta = 1

\* the print of iteration k is behind
PrintPassed(k) ==
    \/ k < it
    \/ k = it /\ pc \in {"l63", "l64", "l65", "l66", "l67", "l68", "l69", "for", "done"}

\* the visualization of iteration k is behind
VisPassed(k) ==
    \/ k < it
    \/ k = it /\ pc \in {"for", "done"}

\* C3: for every it in 1..100 that occurs in msteps exactly one line is
\* printed (one line also when it occurs twice, none for values outside
\* 1..100), the lines come in increasing order of it, and the line of it
\* reports J of the SVC optimized on nn.forward(X) and Jtest of the SVC
\* optimized on nn.forward(Xtest), both under the parameters produced by the
\* it-th nn.update.
C3_PrintAtMsteps ==
    /\ \A j \in DOMAIN msteps :
          (msteps[j] \in 1..NbIter /\ PrintPassed(msteps[j]))
             => \E i \in DOMAIN out : out[i].it = msteps[j]
    /\ \A i \in DOMAIN out :
          out[i].it \in 1..NbIter /\ In(out[i].it, msteps) /\ PrintPassed(out[i].it)
    /\ \A i, j \in DOMAIN out : i < j => out[i].it < out[j].it
    /\ \A i \in DOMAIN out :
          /\ out[i].J = [feat |-> [data |-> "X", theta |-> out[i].it], labels |-> "Y"]
          /\ out[i].Jtest = [feat |-> [data |-> "Xtest", theta |-> out[i].it],
                             labels |-> "Ytest"]

\* msteps names the last iteration twice: one line
C3_Witness ==
    /\ pc = "done"
    /\ msteps = <<NbIter, NbIter>>
    /\ Len(out) = 1
    /\ out[1].it = NbIter

\* The test problem under the parameters after the k-th update.
TestFit(k) == [feat |-> [data |-> "Xtest", theta |-> k], labels |-> "Ytest"]

\* C4: for every it in 1..100 that occurs in vsteps utils.visualize is
\* called exactly once in iteration it, as the last call of the iteration,
\* after nn.update and after the print if there is one; it is directly
\* preceded by forward(Xtest), optimize(Ztest,Ytest), gradient(),
\* predictions(), backward(DZtest), and DXtest and Ftest come from the SVC
\* optimized on nn.forward(Xtest) under the parameters after the update.
C4_VisualizeAtVsteps ==
    /\ \A j \in DOMAIN vsteps :
          (vsteps[j] \in 1..NbIter /\ VisPassed(vsteps[j]))
             => \E i \in DOMAIN vis : vis[i].it = vsteps[j]
    /\ \A i \in DOMAIN vis :
          vis[i].it \in 1..NbIter /\ In(vis[i].it, vsteps) /\ VisPassed(vis[i].it)
    /\ \A i, j \in DOMAIN vis : i < j => vis[i].it < vis[j].it
    /\ \A i \in DOMAIN vis :
          /\ vis[i].Ftest = TestFit(vis[i].it)
          /\ vis[i].DXtest = [grad |-> TestFit(vis[i].it), fwd |-> TestFit(vis[i].it).feat]
    /\ \A i \in DOMAIN trace :
          trace[i] = "utils.visualize" =>
             /\ i = Len(trace)
             /\ i > Len(VisStep)
             /\ SubSeq(trace, i - Len(VisStep) + 1, i) = VisStep
             /\ \E u \in 1..(i - Len(VisStep)) : trace[u] = "nn.update(lr)"
             /\ \A p \in DOMAIN trace : trace[p] = "print" => p <= i - Len(VisStep)
             /\ Cardinality({p \in DOMAIN trace : trace[p] = "nn.forward(Xtest)"})
                   = IF In(it, msteps) THEN 2 ELSE 1

\* vsteps names the first iteration twice and msteps names it too
C4_Witness ==
    /\ pc = "done"
    /\ vsteps = <<1, 1>>
    /\ In(1, msteps)
    /\ Len(vis) = 1
    /\ vis[1].it = 1

\* ------------------------------------------------------------------------
\* part_000 : numbers and data
\* ------------------------------------------------------------------------

\* Number of classes (10 in the notebook), scaled down.
nbclasses == 2

\* Levels of the example model: 0..200 white pixels in half an image.
nblevels == 201

\* Largest number of training examples.
MaxN == 2

Classes == 0..(nbclasses - 1)
Levels == 0..(nblevels - 1)

\* Pixel counts the examples are drawn from: the two ends of the range.
LevelVals == {0, nblevels - 1}

RECURSIVE SumRange(_, _, _)
\* f[lo] + ... + f[hi]
SumRange(f, lo, hi) ==
    IF lo > hi THEN 0
    ELSE IF lo = hi THEN f[lo]
    ELSE LET mid == (lo + hi) \div 2
         IN SumRange(f, lo, mid) + SumRange(f, mid + 1, hi)

\* numpy's sum of a vector indexed 0..n-1
SumF(f, n) == SumRange(f, 0, n - 1)

\* a / b of numpy's float arrays, kept as a fraction; b = 0 yields nan or
\* inf, which is recorded by den = 0
Div(a, b) == [num |-> a, den |-> b]

\* (T==cl).sum()
CountClass(cl) == Cardinality({n \in DOMAIN T : T[n] = cl})

\* Variant: the counts are normalised without adding 1.
Unsmoothed(nbexamples, n) ==
    LET total == SumF(nbexamples, n)
    IN [k \in 0..(n - 1) |-> Div(nbexamples[k], total)]

\* PT = (nbexamples+1) / (nbexamples+1).sum()
Smoothed(nbexamples, n) ==
    LET total == SumF([j \in 0..(n - 1) |-> nbexamples[j] + 1], n)
    IN [k \in 0..(n - 1) |-> Div(nbexamples[k] + 1, total)]

\* ------------------------------------------------------------------------
\* part_000 : the example model
\* ------------------------------------------------------------------------

ExampleInit ==
    /\ gpc = "ex_FT"
    /\ \E N \in 1..MaxN :
          /\ T \in [0..(N - 1) -> Classes]
          /\ Xtop \in [0..(N - 1) -> LevelVals]
          /\ Xbot \in [0..(N - 1) -> LevelVals]
    /\ PT = Unused
    /\ PXT1 = Unused
    /\ PXT2 = Unused
    /\ FitUnused
    /\ PredUnused
    /\ TrainUnused

\* nbexamples[cl] = (T==cl).sum(); PT = (nbexamples+1) / (nbexamples+1).sum()
ClassFactors ==
    Smoothed([cl \in Classes |-> CountClass(cl)], nbclasses)

\* nbexamples[cl,lv] = (x==lv).sum() with x = Xhalf[T==cl];
\* PXT = (nbexamples+1) / (nbexamples+1).sum(axis=1)[:,np.newaxis]
ClassLevelFactors(Xhalf) ==
    [cl \in Classes |->
        Smoothed([lv \in Levels |->
                     Cardinality({n \in DOMAIN T : T[n] = cl /\ Xhalf[n] = lv})],
                 nblevels)]

ExClassFactors ==
    /\ gpc = "ex_FT"
    /\ PT' = ClassFactors
    /\ gpc' = "ex_FXT1"
    /\ UNCHANGED <<T, Xtop, Xbot, PXT1, PXT2, fitVars, predVars, trainVars>>

ExTopFactors ==
    /\ gpc = "ex_FXT1"
    /\ PXT1' = ClassLevelFactors(Xtop)
    /\ gpc' = "ex_FXT2"
    /\ UNCHANGED <<T, Xtop, Xbot, PT, PXT2, fitVars, predVars, trainVars>>

ExBottomFactors ==
    /\ gpc = "ex_FXT2"
    /\ PXT2' = ClassLevelFactors(Xbot)
    /\ gpc' = "ex_done"
    /\ UNCHANGED <<T, Xtop, Xbot, PT, PXT1, fitVars, predVars, trainVars>>

ExampleNext ==
    \/ ExClassFactors
    \/ ExTopFactors
    \/ ExBottomFactors

SpecExample == ExampleInit /\ [][ExampleNext]_vars

\* every entry of the row is a positive number and the row sums to 1
PositiveAndSumsToOne(row, n) ==
    /\ \A k \in 0..(n - 1) : row[k].den > 0 /\ row[k].num > 0
    /\ \A k \in 0..(n - 1) : row[k].den = row[0].den
    /\ SumF([j \in 0..(n - 1) |-> row[j].num], n) = row[0].den

\* C7: in the example model, for every label vector and every top and
\* bottom pixel counts (also when a class has no example or a level never
\* occurs), every entry of PT, PXT1 and PXT2 is strictly positive, PT sums
\* to 1 over the classes and every class row of PXT1 and of PXT2 sums to 1
\* over the 201 levels.
C7_SmoothedFactors ==
    /\ gpc \in {"ex_FXT1", "ex_FXT2", "ex_done"} => PositiveAndSumsToOne(PT, nbclasses)
    /\ gpc \in {"ex_FXT2", "ex_done"} =>
          \A cl \in Classes : PositiveAndSumsToOne(PXT1[cl], nblevels)
    /\ gpc = "ex_done" =>
          \A cl \in Classes : PositiveAndSumsToOne(PXT2[cl], nblevels)

\* all factors are built from data in which a class has no example
C7_Witness ==
    /\ gpc = "ex_done"
    /\ \E cl \in Classes : CountClass(cl) = 0
    /\ \E cl \in Classes : CountClass(cl) = MaxN
    /\ \E cl \in Classes : PXT1[cl][0].num = 1 /\ PXT2[cl][nblevels - 1].num = MaxN + 1

\* ------------------------------------------------------------------------
\* part_000 : images and their groups
\* ------------------------------------------------------------------------

\* Number of subclasses of a group (12 in the notebook), scaled down.
nbsubclss == 2

\* The split points of an image side ([5,10,15] in the notebook, for images
\* of 20x20 pixels), scaled down to one split point, for images of 4x4 pixels.
Splits == <<2>>

\* side of a group of pixels, groups per side, side of an image
GSide == Splits[1]
NGSide == Len(Splits) + 1
Side == NGSide * GSide

nbgroups == NGSide * NGSide
nbgfeats == GSide * GSide
nbfeats == Side * Side

Pixels == 0..(Side - 1)
Groups == 0..(nbgroups - 1)
GFeats == 0..(nbgfeats - 1)
Feats == 0..(nbfeats - 1)
SubClasses == 0..(nbsubclss - 1)
BlackWhite == {0, 1}

Blank == [r \in Pixels |-> [c \in Pixels |-> 0]]
Full == [r \in Pixels |-> [c \in Pixels |-> 1]]
Dot(r0, c0) == [r \in Pixels |-> [c \in Pixels |-> IF r = r0 /\ c = c0 THEN 1 ELSE 0]]
Hole(r0, c0) == [r \in Pixels |-> [c \in Pixels |-> IF r = r0 /\ c = c0 THEN 0 ELSE 1]]

\* Images of the training examples.
TrainImages == {Blank, Full, Dot(0, 0), Dot(0, Side - 1)}

\* Subclass vectors of the training examples.
ZVals == {[g \in Groups |-> sc] : sc \in SubClasses}
            \cup {[g \in Groups |-> g % nbsubclss]}

\* first index of block b of np.split(., Splits)
BlockStart(b) == IF b = 0 THEN 0 ELSE Splits[b]

\* np.stack(np.split(x, Splits, axis=1)) of a Side x Side image:
\* a[cb][r][c], the column blocks
ColBlocks(x) ==
    [cb \in 0..(NGSide - 1) |->
        [r \in Pixels |-> [c \in 0..(GSide - 1) |-> x[r][BlockStart(cb) + c]]]]

\* np.stack(np.split(a, Splits, axis=1)) of the column blocks:
\* b[rb][cb][r][c], the row blocks of every column block
RowBlocks(a) ==
    [rb \in 0..(NGSide - 1) |->
        [cb \in 0..(NGSide - 1) |->
            [r \in 0..(GSide - 1) |->
                [c \in 0..(GSide - 1) |-> a[cb][BlockStart(rb) + r][c]]]]]

\* element k of b.ravel() for b of shape (NGSide, NGSide, GSide, GSide)
Ravel4(b, k) ==
    b[k \div (NGSide * nbgfeats)][(k \div nbgfeats) % NGSide][(k \div GSide) % GSide][k % GSide]

\* x.ravel()[k] of an image
Ravel(x, k) == x[k \div Side][k % Side]

\* Variant: x.reshape(nbgroups, nbgfeats), the image cut into runs of
\* consecutive pixels instead of square regions.
PlainReshape(x) ==
    [g \in Groups |-> [f \in GFeats |-> Ravel(x, g * nbgfeats + f)]]

\* np.stack(np.split(np.stack(np.split(x,Splits,axis=1)),Splits,axis=1))
\*    .reshape(nbgroups, nbgfeats)
GroupPixels(x) ==
    LET b == RowBlocks(ColBlocks(x))
    IN [g \in Groups |-> [f \in GFeats |-> Ravel4(b, g * nbgfeats + f)]]

\* the same split applied to all images, reshaped to (nbgroups,-1,GSide,GSide)
\* and with the first two axes swapped: s[n][grp][r][c]
SubXOf(imgs) ==
    [n \in DOMAIN imgs |->
        LET b == RowBlocks(ColBlocks(imgs[n]))
        IN [g \in Groups |-> b[g \div NGSide][g % NGSide]]]

RECURSIVE SumSet(_, _)
\* sum of f[i] over the i of a finite set
SumSet(f, S) ==
    IF S = {} THEN 0
    ELSE LET i == CHOOSE j \in S : TRUE IN f[i] + SumSet(f, S \ {i})

\* 1. - p
OneMinus(p) == IF p.den = 0 THEN p ELSE [num |-> p.den - p.num, den |-> p.den]

\* np.log(p + 1e-20): a number when p is a number and p + 1e-20 > 0, nan
\* otherwise
LogPlusEps(p) == [of |-> p, defined |-> (p.den > 0 /\ p.num >= 0)]

\* np.log(p)
Log(p) == [of |-> p, defined |-> (p.den > 0 /\ p.num > 0)]

\* ------------------------------------------------------------------------
\* part_000 : the factors of the shallow and of the hierarchical model
\* ------------------------------------------------------------------------

FitInit ==
    /\ gpc = "sh_FT"
    /\ \E N \in 1..MaxN :
          /\ T \in [0..(N - 1) -> Classes]
          /\ X \in [0..(N - 1) -> TrainImages]
          /\ Z \in [0..(N - 1) -> ZVals]
    /\ PT = Unused /\ PXT = Unused /\ PZT = Unused /\ subX = Unused
    /\ FT = Unused /\ FXT = Unused /\ FZT = Unused
    /\ ExUnused
    /\ PredUnused
    /\ TrainUnused

\* PXT[:,cl,1] = X[cl == T].sum(axis=0).ravel() / (cl==T).sum()
\* PXT[:,cl,0] = 1. - PXT[:,cl,1]
ShallowPXT ==
    [nbf \in Feats |->
        [cl \in Classes |->
            LET white == Div(SumSet([n \in DOMAIN T |-> Ravel(X[n], nbf)],
                                    {n \in DOMAIN T : T[n] = cl}),
                             CountClass(cl))
            IN [lv \in BlackWhite |-> IF lv = 1 THEN white ELSE OneMinus(white)]]]

\* PZT[:,cl,:] = (Z[T==cl][:,:,np.newaxis] == np.arange(nbsubclss)).sum(axis=0)
\* PZT[:,cl,:] = PZT[:,cl,:] / PZT[:,cl,:].sum(axis=1,keepdims=True)
HierPZT ==
    [grp \in Groups |->
        [cl \in Classes |->
            LET cnt == [sc \in SubClasses |->
                          Cardinality({n \in DOMAIN T : T[n] = cl /\ Z[n][grp] = sc})]
                total == SumF(cnt, nbsubclss)
            IN [sc \in SubClasses |-> Div(cnt[sc], total)]]]

\* ind[:,0][grp==ind[:,1]] with ind = np.argwhere(Z == sc)
Sel(grp, sc) == {n \in DOMAIN Z : Z[n][grp] = sc}

\* ind[:,0][grp==ind[:,1]].sum() if ind[:,0][grp==ind[:,1]].sum() > 0 else 1.
Denominator(grp, sc) ==
    LET total == SumSet([n \in DOMAIN Z |-> n], Sel(grp, sc))
    IN IF total > 0 THEN total ELSE 1

\* PXT[grp,:,sc,1] = subX[ind[:,0][grp==ind[:,1]],grp].sum(axis=0).ravel()
\* PXT[grp,:,sc,1] /= <denominator>
\* PXT[grp,:,sc,0] = 1. - PXT[grp,:,sc,1]
HierPXT ==
    [grp \in Groups |->
        [nbf \in GFeats |->
            [sc \in SubClasses |->
                LET white ==
                      Div(SumSet([n \in DOMAIN Z |->
                                     subX[n][grp][nbf \div GSide][nbf % GSide]],
                                 Sel(grp, sc)),
                          Denominator(grp, sc))
                IN [lv \in BlackWhite |-> IF lv = 1 THEN white ELSE OneMinus(white)]]]]

\* shallow model: PT and FT
ShClassFactors ==
    /\ gpc = "sh_FT"
    /\ PT' = ClassFactors
    /\ FT' = [cl \in Classes |-> Log(ClassFactors[cl])]
    /\ gpc' = "sh_PXT"
    /\ UNCHANGED <<T, X, Z, PXT, PZT, subX, FXT, FZT, exVars, predVars, trainVars>>

\* shallow model: PXT
ShClassLevelFactors ==
    /\ gpc = "sh_PXT"
    /\ PXT' = ShallowPXT
    /\ gpc' = "sh_FXT"
    /\ UNCHANGED <<T, X, Z, PT, PZT, subX, FT, FXT, FZT, exVars, predVars, trainVars>>

\* FXT = [FactorNode(...,np.log(PXT[nbf]+1e-20),[VT,VX[nbf]]) for nbf in range(nbfeats)]
ShFactorNodes ==
    /\ gpc = "sh_FXT"
    /\ FXT' = [nbf \in Feats |->
                 [cl \in Classes |-> [lv \in BlackWhite |-> LogPlusEps(PXT[nbf][cl][lv])]]]
    /\ gpc' = "hi_FT"
    /\ UNCHANGED <<T, X, Z, PT, PXT, PZT, subX, FT, FZT, exVars, predVars, trainVars>>

\* hierarchical model: PT and FT
HiClassFactors ==
    /\ gpc = "hi_FT"
    /\ PT' = ClassFactors
    /\ FT' = [cl \in Classes |-> Log(ClassFactors[cl])]
    /\ gpc' = "hi_PZT"
    /\ UNCHANGED <<T, X, Z, PXT, PZT, subX, FXT, FZT, exVars, predVars, trainVars>>

\* hierarchical model: PZT
HiClassSubclassFactors ==
    /\ gpc = "hi_PZT"
    /\ PZT' = HierPZT
    /\ gpc' = "hi_FZT"
    /\ UNCHANGED <<T, X, Z, PT, PXT, subX, FT, FXT, FZT, exVars, predVars, trainVars>>

\* FZT = [FactorNode(...,np.log(PZT[grp]+1e-20),[VT,VZ[grp]]) for grp in range(nbgroups)]
HiClassSubclassNodes ==
    /\ gpc = "hi_FZT"
    /\ FZT' = [grp \in Groups |->
                 [cl \in Classes |-> [sc \in SubClasses |-> LogPlusEps(PZT[grp][cl][sc])]]]
    /\ gpc' = "hi_subX"
    /\ UNCHANGED <<T, X, Z, PT, PXT, PZT, subX, FT, FXT, exVars, predVars, trainVars>>

\* PXT = np.zeros(...); subX = ...
HiSubX ==
    /\ gpc = "hi_subX"
    /\ PXT' = [grp \in Groups |->
                 [nbf \in GFeats |-> [sc \in SubClasses |-> [lv \in BlackWhite |-> Div(0, 1)]]]]
    /\ subX' = SubXOf(X)
    /\ gpc' = "hi_PXT"
    /\ UNCHANGED <<T, X, Z, PT, PZT, FT, FXT, FZT, exVars, predVars, trainVars>>

\* hierarchical model: PXT
HiSubclassLevelFactors ==
    /\ gpc = "hi_PXT"
    /\ PXT' = HierPXT
    /\ gpc' = "hi_FXT"
    /\ UNCHANGED <<T, X, Z, PT, PZT, subX, FT, FXT, FZT, exVars, predVars, trainVars>>

\* FXT = [[FactorNode(...,np.log(PXT[grp,nbf]+1e-20),[VZ[grp],VX[grp][nbf]]) ...]]
HiFactorNodes ==
    /\ gpc = "hi_FXT"
    /\ FXT' = [grp \in Groups |->
                 [nbf \in GFeats |->
                    [sc \in SubClasses |->
                       [lv \in BlackWhite |-> LogPlusEps(PXT[grp][nbf][sc][lv])]]]]
    /\ gpc' = "hi_done"
    /\ UNCHANGED <<T, X, Z, PT, PXT, PZT, subX, FT, FZT, exVars, predVars, trainVars>>

FitNext ==
    \/ ShClassFactors
    \/ ShClassLevelFactors
    \/ ShFactorNodes
    \/ HiClassFactors
    \/ HiClassSubclassFactors
    \/ HiClassSubclassNodes
    \/ HiSubX
    \/ HiSubclassLevelFactors
    \/ HiFactorNodes

SpecFit == FitInit /\ [][FitNext]_vars

\* pixel nbf of group grp of an image: the groups are the GSide x GSide
\* regions of the image, numbered row by row, and so are the pixels of a
\* region
GroupPixel(x, grp, nbf) ==
    x[GSide * (grp \div NGSide) + (nbf \div GSide)][GSide * (grp % NGSide) + (nbf % GSide)]

\* p and q are the same number
SameNumber(p, q) == p.den > 0 /\ q.den > 0 /\ p.num * q.den = q.num * p.den

\* p is a number in [0,1]
IsProbability(p) == p.den > 0 /\ 0 <= p.num /\ p.num <= p.den

\* C6: in the hierarchical model, for every group grp, subclass sc and
\* pixel nbf such that some training example n has Z[n,grp] = sc,
\* PXT[grp,nbf,sc,1] is the number of examples with Z[n,grp] = sc whose
\* pixel nbf of group grp is white divided by the number of examples with
\* Z[n,grp] = sc, and PXT[grp,nbf,sc,0] = 1 - PXT[grp,nbf,sc,1].
C6_SubclassLevelMLE ==
    gpc \in {"hi_FXT", "hi_done"} =>
       \A grp \in Groups, nbf \in GFeats, sc \in SubClasses :
          LET S == {n \in DOMAIN Z : Z[n][grp] = sc}
              white == Cardinality({n \in S : GroupPixel(X[n], grp, nbf) = 1})
          IN S # {} =>
                /\ SameNumber(PXT[grp][nbf][sc][1], Div(white, Cardinality(S)))
                /\ SameNumber(PXT[grp][nbf][sc][0],
                              Div(Cardinality(S) - white, Cardinality(S)))

\* C8: for every training set, every entry of PXT (shallow), of PZT and of
\* PXT (hierarchical) is a well-defined number in [0,1], and every table
\* handed to a factor node is the logarithm of a strictly positive number.
C8_NoLogOfZero ==
    /\ gpc \in {"sh_FXT", "hi_FT", "hi_PZT", "hi_FZT", "hi_subX"} =>
          \A nbf \in Feats, cl \in Classes, lv \in BlackWhite :
             IsProbability(PXT[nbf][cl][lv])
    /\ gpc \in {"hi_FT", "hi_PZT", "hi_FZT", "hi_subX", "hi_PXT", "hi_FXT"} =>
          \A nbf \in Feats, cl \in Classes, lv \in BlackWhite : FXT[nbf][cl][lv].defined
    /\ gpc \in {"hi_FZT", "hi_subX", "hi_PXT", "hi_FXT", "hi_done"} =>
          \A grp \in Groups, cl \in Classes, sc \in SubClasses :
             IsProbability(PZT[grp][cl][sc])
    /\ gpc \in {"hi_subX", "hi_PXT", "hi_FXT", "hi_done"} =>
          \A grp \in Groups, cl \in Classes, sc \in SubClasses : FZT[grp][cl][sc].defined
    /\ gpc \in {"hi_FXT", "hi_done"} =>
          \A grp \in Groups, nbf \in GFeats, sc \in SubClasses, lv \in BlackWhite :
             IsProbability(PXT[grp][nbf][sc][lv])
    /\ gpc = "hi_done" =>
          \A grp \in Groups, nbf \in GFeats, sc \in SubClasses, lv \in BlackWhite :
             FXT[grp][nbf][sc][lv].defined
    /\ gpc \notin {"sh_FT"} => \A cl \in Classes : FT[cl].defined

\* ------------------------------------------------------------------------
\* part_000 : predict
\* ------------------------------------------------------------------------
\* The tables of the factor nodes are logarithms; here a table entry log(w)
\* is kept as the positive integer w, so that the products and sums of
\* the sum-product algorithm are exact.

\* The factor graphs are drawn from a family of tables indexed by 0..MaxSeed.
MaxSeed == 7

\* Images predict is called with.
Images == {Blank, Full}
             \cup {Dot(r, c) : r \in Pixels, c \in Pixels}
             \cup {Hole(r, c) : r \in Pixels, c \in Pixels}

\* entry number key of the tables of a seed: 1 or 2
Weigh(seed, key) == 1 + ((((key + seed) * (key + 2 * seed + 1)) % 11) % 2)

TableFT(seed) == [cl \in Classes |-> Weigh(seed, cl)]

TableShallowFXT(seed) ==
    [nbf \in Feats |->
        [cl \in Classes |->
            [lv \in BlackWhite |-> Weigh(seed + 1, (nbf * nbclasses + cl) * 2 + lv)]]]

TableFZT(seed) ==
    [grp \in Groups |->
        [cl \in Classes |->
            [sc \in SubClasses |-> Weigh(seed + 2, (grp * nbclasses + cl) * nbsubclss + sc)]]]

TableHierFXT(seed) ==
    [grp \in Groups |->
        [nbf \in GFeats |->
            [sc \in SubClasses |->
                [lv \in BlackWhite |->
                    Weigh(seed + 3, ((grp * nbgfeats + nbf) * nbsubclss + sc) * 2 + lv)]]]]

RECURSIVE ProdRange(_, _, _)
\* f[lo] * ... * f[hi]
ProdRange(f, lo, hi) ==
    IF lo > hi THEN 1
    ELSE IF lo = hi THEN f[lo]
    ELSE LET mid == (lo + hi) \div 2
         IN ProdRange(f, lo, mid) * ProdRange(f, mid + 1, hi)

\* product of a vector indexed 0..n-1
ProdF(f, n) == ProdRange(f, 0, n - 1)

\* graphical.py, message of a factor over (parent, VX) to the parent when VX
\* is observed: the table summed over the states of VX that agree with its
\* evidence
MsgObserved(table, ev) ==
    [p \in DOMAIN table |->
        SumF([lv \in BlackWhite |-> IF lv = ev THEN table[p][lv] ELSE 0], 2)]

\* graphical.py, message of the variable VZ[grp] to the factor FZT[grp]: the
\* product of the messages of the factors FXT[grp][.] below it
MsgVZ(grp, ev) ==
    [sc \in SubClasses |->
        ProdF([nbf \in GFeats |-> MsgObserved(FXT[grp][nbf], ev[grp][nbf])[sc]], nbgfeats)]

\* graphical.py, message of the factor FZT[grp] to VT: the table times the
\* message of VZ[grp], summed over the states of VZ[grp]
MsgFZT(grp, ev) ==
    [cl \in Classes |->
        SumF([sc \in SubClasses |-> FZT[grp][cl][sc] * MsgVZ(grp, ev)[sc]], nbsubclss)]

\* graphical.py, VT.computeMarginal() after VT.initiateMessagePassing(None),
\* shallow model: the product of the messages that reach VT (up to the
\* normalisation, which does not change the argmax)
MarginalShallow(ev) ==
    [cl \in Classes |->
        FT[cl] * ProdF([nbf \in Feats |-> MsgObserved(FXT[nbf], ev[nbf])[cl]], nbfeats)]

\* the same for the hierarchical model
MarginalHier(ev) ==
    [cl \in Classes |->
        FT[cl] * ProdF([grp \in Groups |-> MsgFZT(grp, ev)[cl]], nbgroups)]

\* np.argmax of a vector indexed 0..n-1: the first index of the largest entry
ArgMax(m, n) ==
    CHOOSE k \in 0..(n - 1) :
        /\ \A j \in 0..(n - 1) : m[j] <= m[k]
        /\ \A j \in 0..(k - 1) : m[j] < m[k]

InferInit ==
    /\ gpc = "built"
    /\ model \in {"shallow", "hierarchical"}
    /\ \E seed \in 0..MaxSeed :
          /\ FT = TableFT(seed)
          /\ FXT = IF model = "shallow" THEN TableShallowFXT(seed) ELSE TableHierFXT(seed)
          /\ FZT = IF model = "shallow" THEN Unused ELSE TableFZT(seed)
    /\ predX = Unused
    /\ evidence = Unused
    /\ pred = Unused
    /\ T = Unused /\ PT = Unused
    /\ X = Unused /\ Z = Unused /\ PXT = Unused /\ PZT = Unused /\ subX = Unused
    /\ ExUnused
    /\ TrainUnused

\* shallow model:
\*   for nbf in range(nbfeats): VX[nbf].evidence = x.ravel()[nbf]
\*   VT.initiateMessagePassing(None); return np.argmax(VT.computeMarginal())
PredictShallow ==
    /\ gpc \in {"built", "predicted"}
    /\ model = "shallow"
    /\ \E im \in Images :
          /\ predX' = im
          /\ evidence' = [nbf \in Feats |-> Ravel(im, nbf)]
    /\ pred' = ArgMax(MarginalShallow(evidence'), nbclasses)
    /\ gpc' = "predicted"
    /\ UNCHANGED <<model, T, PT, exVars, fitVars, trainVars>>

\* hierarchical model:
\*   xsub = np.stack(np.split(np.stack(np.split(x,...,axis=1)),...,axis=1)).reshape(16,25)
\*   for grp, nbf: VX[grp][nbf].evidence = xsub[grp,nbf]
\*   VT.initiateMessagePassing(None); return np.argmax(VT.computeMarginal())
PredictHier ==
    /\ gpc \in {"built", "predicted"}
    /\ model = "hierarchical"
    /\ \E im \in Images :
          /\ predX' = im
          /\ evidence' = GroupPixels(im)
    /\ pred' = ArgMax(MarginalHier(evidence'), nbclasses)
    /\ gpc' = "predicted"
    /\ UNCHANGED <<model, T, PT, exVars, fitVars, trainVars>>

InferNext ==
    \/ PredictShallow
    \/ PredictHier

SpecInfer == InferInit /\ [][InferNext]_vars

\* shallow model: P(T=cl) * prod_i P(x_i | T=cl) over the pixels i of the image
JointShallow(cl) ==
    FT[cl] * ProdF([i \in Feats |-> FXT[i][cl][predX[i \div Side][i % Side]]], nbfeats)

\* hierarchical model: the joint weight of T = cl, of the subclasses zz of the
\* groups and of the observed pixels
JointHierZ(cl, zz) ==
    FT[cl]
      * ProdF([grp \in Groups |-> FZT[grp][cl][zz[grp]]], nbgroups)
      * ProdF([grp \in Groups |->
                  ProdF([nbf \in GFeats |->
                            FXT[grp][nbf][zz[grp]][GroupPixel(predX, grp, nbf)]],
                        nbgfeats)],
              nbgroups)

\* hierarchical model: the joint weight of T = cl and of the observed pixels,
\* by enumeration of the subclasses of all groups
JointHier(cl) ==
    LET ZZ == [Groups -> SubClasses]
    IN SumSet([zz \in ZZ |-> JointHierZ(cl, zz)], ZZ)

Joint(cl) == IF model = "shallow" THEN JointShallow(cl) ELSE JointHier(cl)

====
